---------------------------- MODULE Spec2Model ----------------------------
(***************************************************************************)
(* A model of the decision core of personal-ai-architect:                  *)
(*   - TrinityCouncil (src/src/council/__init__.py): the proposal list,    *)
(*     the decision list, the four CouncilMember evaluators and the        *)
(*     operations submit_proposal, deliberated, get_pending_proposals;     *)
(*   - AutoApproveRules (src/src/skills/morning_briefing.py): the ordered  *)
(*     rule list and evaluate;                                             *)
(*   - NotificationManager and WebChatAdapter                              *)
(*     (src/src/channels/adapters.py): the pending batch and the message   *)
(*     queue;                                                              *)
(*   - TaskManager and HealthMonitor (src/src/skills/morning_briefing.py); *)
(*   - CronScheduler (src/src/cron/scheduler.py): get_due_jobs, run_job;   *)
(*   - PersonalAIArchitect.switch_domain (src/src/main.py).                *)
(*                                                                         *)
(* Conventions.  Money is held in cents, so that estimated_cost = 0.50 is  *)
(* 50 and the Guardian's limit of 100 is 10000.  The Moderator's approval  *)
(* count moves in halves, so it is held doubled (approvals2 = 2*approvals).*)
(* Wall-clock time is a tick counter with TicksPerSecond ticks to a        *)
(* second; strftime('%Y%m%d_%H%M%S') keeps the whole second only.          *)
(* Free-text fields that no operation reads (title, description, the       *)
(* reasoning sentences) are left out of the records.                       *)
(***************************************************************************)
EXTENDS Integers, Sequences, FiniteSets, TLC

VARIABLES
    now,          \* datetime.now(), in ticks
    proposals,    \* TrinityCouncil.proposals
    decisions,    \* TrinityCouncil.decisions
    ret,          \* what the last council call returned
    rules,        \* AutoApproveRules.RULES
    gateCall,     \* the arguments of the last AutoApproveRules.evaluate call
    gateResult,   \* what that call returned
    run,          \* per caller thread: where its deliberated call stands
    file,         \* the content of the file export_decisions writes
    exporter,     \* where the export_decisions call stands
    notifier,     \* NotificationManager: pending, what the router was sent, its coroutines
    webchat,      \* WebChatAdapter: message_queue and what receive returned
    tasks,        \* TaskManager: tasks and what the last call returned
    cron,         \* CronScheduler: the clock, jobs, results and what the last call returned
    architect,    \* PersonalAIArchitect: active_domain and what the last call returned
    health        \* HealthMonitor: checks and what run_all returned

vars == <<now, proposals, decisions, ret, rules, gateCall, gateResult, run, file, exporter,
          notifier, webchat, tasks, cron, architect, health>>
councilVars == <<now, proposals, decisions, ret>>
gateVars == <<rules, gateCall, gateResult>>
exportVars == <<file, exporter>>
\* The objects held beside the council and the rules.
appVars == <<notifier, webchat, tasks, cron, architect, health>>
\* What an atomic council call leaves alone, and what a gate call leaves alone.
outsideCouncil == <<gateVars, run, exportVars, appVars>>
outsideGate == <<councilVars, run, exportVars, appVars>>

(***************************** bounds *************************************)
MaxProposals == 2
MaxDecisions == 2
MaxNow == 2
TicksPerSecond == 2

(************************** input domains *********************************)
Domains == {"personal", "work"}
RiskLevels == {"low", "medium", "high", "critical"}
\* What a caller may pass: the code checks neither priority nor risk_level.
AnyPriorities == {0, 1, 3, 4, 5, 6}
AnyCosts == {0, 50, 10000, 15000}
AnyRiskLevels == RiskLevels \cup {"unknown"}
\* The defaults of submit_proposal's signature.
DefaultPriority == 3
DefaultCost == 0

(********************** CouncilMember evaluators **************************)
GuardianCostLimit == 10000

EvaluateStrategist(p) ==
    [role |-> "strategist", rating |-> "support", concerns |-> <<>>]

\* Mutant: the priority test made first, so its entry leads the list.
SkepticConcerns_PriorityFirst(p) ==
    (IF p.priority > 4 THEN <<"Very high priority needs justification">> ELSE <<>>)
    \o (IF p.external_action THEN <<"External action requires explicit approval">> ELSE <<>>)
    \o (IF p.risk_level \in {"high", "critical"} THEN <<"Risk level is " \o p.risk_level>> ELSE <<>>)

SkepticConcerns(p) ==
    (IF p.external_action THEN <<"External action requires explicit approval">> ELSE <<>>)
    \o (IF p.risk_level \in {"high", "critical"} THEN <<"Risk level is " \o p.risk_level>> ELSE <<>>)
    \o (IF p.priority > 4 THEN <<"Very high priority needs justification">> ELSE <<>>)

\* Mutant: a Skeptic that keeps state between calls: once the council has
\* recorded a decision it rates no proposal better than conditional.
EvaluateSkeptic_Stateful(p) ==
    LET concerns == SkepticConcerns(p)
    IN  [role |-> "skeptic",
         rating |-> IF p.risk_level = "critical" THEN "reject"
                    ELSE IF concerns # <<>> \/ decisions # <<>> THEN "conditional"
                    ELSE "support",
         concerns |-> concerns]

EvaluateSkeptic(p) ==
    LET concerns == SkepticConcerns(p)
    IN  [role |-> "skeptic",
         rating |-> IF p.risk_level = "critical" THEN "reject"
                    ELSE IF concerns # <<>> THEN "conditional" ELSE "support",
         concerns |-> concerns]

\* Mutant: a cost equal to the limit already makes the rating conditional.
EvaluateGuardian_AtLimit(p) ==
    [role |-> "guardian",
     rating |-> IF p.risk_level = "critical" THEN "reject"
                ELSE IF p.risk_level = "high" /\ p.estimated_cost >= GuardianCostLimit
                     THEN "conditional"
                     ELSE "approved",
     concerns |-> <<>>]

EvaluateGuardian(p) ==
    [role |-> "guardian",
     rating |-> IF p.risk_level = "critical" THEN "reject"
                ELSE IF p.risk_level = "high" /\ p.estimated_cost > GuardianCostLimit
                     THEN "conditional"
                     ELSE "approved",
     concerns |-> <<>>]

\* The ratings the Moderator counts: a dictionary written out in the method,
\* in the order strategist, skeptic, guardian.
ModeratorRatings(p) == <<"support", "conditional", "approved">>

\* Mutant: a conditional rating adds nothing to the approvals.
RECURSIVE Approvals2_ConditionalZero(_, _)
Approvals2_ConditionalZero(ratings, n) ==
    IF n = 0 THEN 0
    ELSE Approvals2_ConditionalZero(ratings, n - 1)
         + (IF ratings[n] \in {"support", "approved"} THEN 2 ELSE 0)

\* The counting loop: twice the approvals after the first n ratings.
RECURSIVE Approvals2(_, _)
Approvals2(ratings, n) ==
    IF n = 0 THEN 0
    ELSE Approvals2(ratings, n - 1)
         + (IF ratings[n] \in {"support", "approved"} THEN 2
            ELSE IF ratings[n] = "reject" THEN 0
            ELSE IF ratings[n] = "conditional" THEN 1
            ELSE 0)

RECURSIVE Rejections(_, _)
Rejections(ratings, n) ==
    IF n = 0 THEN 0
    ELSE Rejections(ratings, n - 1)
         + (IF ratings[n] \in {"support", "approved"} THEN 0
            ELSE IF ratings[n] = "reject" THEN 1
            ELSE 0)

ModeratorDecision(approvals2, rejections) ==
    IF approvals2 > 2 * rejections THEN "approved" ELSE "rejected"

ModeratorConsensus(approvals2) == approvals2 >= 2 * 2

EvaluateModerator(p) ==
    LET ratings == ModeratorRatings(p)
        approvals2 == Approvals2(ratings, Len(ratings))
        rejections == Rejections(ratings, Len(ratings))
    IN  [role |-> "moderator",
         rating |-> ModeratorDecision(approvals2, rejections),
         approvals2 |-> approvals2,
         rejections |-> rejections,
         consensus_reached |-> ModeratorConsensus(approvals2)]

(**************************** TrinityCouncil ******************************)
\* strftime('%Y%m%d_%H%M%S'): the timestamp cut to the whole second.
FormatId(t) == t \div TicksPerSecond

NewProposal(domain, priority, external_action, estimated_cost, risk_level) ==
    [id |-> FormatId(now),
     domain |-> domain,
     priority |-> priority,
     external_action |-> external_action,
     estimated_cost |-> estimated_cost,
     risk_level |-> risk_level]

\* Mutant: `or` written for `and`.
RequiresHumanApproval_Or(p, moderator_result) ==
    p.external_action \/ moderator_result.rating # "approved"

RequiresHumanApproval(p, moderator_result) ==
    p.external_action /\ moderator_result.rating # "approved"

\* Mutant: the verdict read from the Guardian's result.
MakeDecision_GuardianVerdict(i) ==
    LET p == proposals[i]
        strategist == EvaluateStrategist(p)
        skeptic == EvaluateSkeptic(p)
        guardian == EvaluateGuardian(p)
        moderator_result == EvaluateModerator(p)
    IN  [proposal_id |-> p.id,
         domain |-> p.domain,
         council_votes |-> [strategist |-> strategist.rating,
                            skeptic |-> skeptic.rating,
                            guardian |-> guardian.rating,
                            moderator |-> moderator_result.rating],
         decision |-> guardian.rating,
         approvals2 |-> moderator_result.approvals2,
         rejections |-> moderator_result.rejections,
         consensus |-> moderator_result.consensus_reached,
         requires_human_approval |-> RequiresHumanApproval(p, moderator_result),
         pidx |-> i]

\* The decision dictionary built for proposals[i].  pidx is not a key of the
\* dictionary: it records which Proposal object the call was given.
MakeDecision(i) ==
    LET p == proposals[i]
        strategist == EvaluateStrategist(p)
        skeptic == EvaluateSkeptic(p)
        guardian == EvaluateGuardian(p)
        moderator_result == EvaluateModerator(p)
    IN  [proposal_id |-> p.id,
         domain |-> p.domain,
         council_votes |-> [strategist |-> strategist.rating,
                            skeptic |-> skeptic.rating,
                            guardian |-> guardian.rating,
                            moderator |-> moderator_result.rating],
         decision |-> moderator_result.rating,
         approvals2 |-> moderator_result.approvals2,
         rejections |-> moderator_result.rejections,
         consensus |-> moderator_result.consensus_reached,
         requires_human_approval |-> RequiresHumanApproval(p, moderator_result),
         pidx |-> i]

\* Mutant: decided proposals looked up in Proposal.votes, which is never filled.
DecidedIds_FromVotes == {}

DecidedIds == {decisions[k].proposal_id : k \in DOMAIN decisions}

\* get_pending_proposals: the indexes of the proposals it lists, in order.
RECURSIVE PendingUpTo(_)
PendingUpTo(n) ==
    IF n = 0 THEN <<>>
    ELSE PendingUpTo(n - 1)
         \o (IF proposals[n].id \notin DecidedIds THEN <<n>> ELSE <<>>)

GetPendingProposals == PendingUpTo(Len(proposals))

NoReturn == [op |-> "none", raised |-> "none", index |-> 0, value |-> <<>>]

Tick ==
    /\ now < MaxNow
    /\ now' = now + 1
    /\ UNCHANGED <<proposals, decisions, ret, outsideCouncil>>

SubmitProposal(domain, priority, external_action, estimated_cost, risk_level) ==
    /\ Len(proposals) < MaxProposals
    /\ proposals' = Append(proposals,
           NewProposal(domain, priority, external_action, estimated_cost, risk_level))
    /\ ret' = [op |-> "submit_proposal", raised |-> "none",
               index |-> Len(proposals) + 1, value |-> <<>>]
    /\ UNCHANGED <<now, decisions, outsideCouncil>>

\* Mutant: the ledger keyed by proposal id, a later decision replacing the earlier.
Deliberated_Upsert(i) ==
    /\ i \in DOMAIN proposals
    /\ Len(decisions) < MaxDecisions
    /\ decisions' = IF proposals[i].id \in DecidedIds
                     THEN [k \in DOMAIN decisions |->
                              IF decisions[k].proposal_id = proposals[i].id
                              THEN MakeDecision(i)
                              ELSE decisions[k]]
                     ELSE Append(decisions, MakeDecision(i))
    /\ ret' = [op |-> "deliberated", raised |-> "none",
               index |-> Len(decisions) + 1, value |-> <<>>]
    /\ UNCHANGED <<now, proposals, outsideCouncil>>

\* Mutant: the new decision put at the head of the list (insert(0, decision)).
Deliberated_Prepend(i) ==
    /\ i \in DOMAIN proposals
    /\ Len(decisions) < MaxDecisions
    /\ decisions' = <<MakeDecision(i)>> \o decisions
    /\ ret' = [op |-> "deliberated", raised |-> "none",
               index |-> Len(decisions) + 1, value |-> <<>>]
    /\ UNCHANGED <<now, proposals, outsideCouncil>>

Deliberated(i) ==
    /\ i \in DOMAIN proposals
    /\ Len(decisions) < MaxDecisions
    /\ decisions' = Append(decisions, MakeDecision(i))
    /\ ret' = [op |-> "deliberated", raised |-> "none",
               index |-> Len(decisions) + 1, value |-> <<>>]
    /\ UNCHANGED <<now, proposals, outsideCouncil>>

\* Mutant: the call hands the pending proposals out and drops them from the list.
GetPending_Draining ==
    /\ ret' = [op |-> "get_pending_proposals", raised |-> "none",
               index |-> 0, value |-> GetPendingProposals]
    /\ proposals' = SelectSeq(proposals, LAMBDA p : p.id \in DecidedIds)
    /\ UNCHANGED <<now, decisions, outsideCouncil>>

\* A call of get_pending_proposals: the list is built and returned.
GetPending ==
    /\ ret' = [op |-> "get_pending_proposals", raised |-> "none",
               index |-> 0, value |-> GetPendingProposals]
    /\ UNCHANGED <<now, proposals, decisions, outsideCouncil>>

\* A call of council.decisions_for_domain(domain): TrinityCouncil has no such
\* attribute, so the attribute lookup raises and nothing else happens.
DecisionsForDomain ==
    \E domain \in Domains :
        /\ ret' = [op |-> "decisions_for_domain", raised |-> "AttributeError",
                   index |-> 0, value |-> <<>>, domain |-> domain]
        /\ UNCHANGED <<now, proposals, decisions, outsideCouncil>>

\* A caller that passes domain, external_action and risk_level and leaves
\* priority and estimated_cost at their defaults.
Submit ==
    \E domain \in Domains, external_action \in BOOLEAN, risk_level \in RiskLevels :
        SubmitProposal(domain, DefaultPriority, external_action, DefaultCost, risk_level)

\* The first proposal of a council, with every argument chosen freely.
SubmitFirst ==
    /\ proposals = <<>>
    /\ \E domain \in Domains, priority \in AnyPriorities, external_action \in BOOLEAN,
          estimated_cost \in AnyCosts, risk_level \in AnyRiskLevels :
           SubmitProposal(domain, priority, external_action, estimated_cost, risk_level)

Deliberate == \E i \in 1..MaxProposals : Deliberated(i)

(***************** deliberated, one statement at a time *******************)
\* The threads that call into one council.
Threads == {1, 2}

Idle == [status |-> "idle", pidx |-> 0, done |-> <<>>, retry |-> FALSE, overlap |-> FALSE]

\* Mutant: the Moderator entered first in the members dictionary.
MemberOrder_ModeratorFirst == <<"moderator", "strategist", "skeptic", "guardian">>

\* self.members, in the order the dictionary was filled: the order of the loop.
MemberOrder == <<"strategist", "skeptic", "guardian", "moderator">>

\* submit_proposal(title, description, domain): every other argument defaulted.
SubmitDefaults ==
    \E domain \in Domains :
        SubmitProposal(domain, DefaultPriority, FALSE, DefaultCost, "low")

\* A caller in the work domain that passes risk_level and leaves the other
\* arguments at their defaults.
SubmitWork ==
    \E risk_level \in RiskLevels :
        SubmitProposal("work", DefaultPriority, FALSE, DefaultCost, risk_level)

Evaluating == {t \in Threads : run[t].status = "evaluating"}

\* Thread t enters deliberated(proposals[i]): results = {}, votes = {}.
\* retry and overlap are not program state: they record that the thread's
\* last call on this proposal raised, and that another call on the same
\* proposal id was in progress at some time during this one.
DelibStart(t, i) ==
    /\ run[t].status # "evaluating"
    /\ i \in DOMAIN proposals
    /\ Len(decisions) + Cardinality(Evaluating) < MaxDecisions
    /\ LET others == {u \in Evaluating : proposals[run[u].pidx].id = proposals[i].id}
       IN  run' = [u \in Threads |->
                     IF u = t
                     THEN [status |-> "evaluating", pidx |-> i, done |-> <<>>,
                           retry |-> (run[t].status = "raised" /\ run[t].pidx = i),
                           overlap |-> (others # {})]
                     ELSE IF u \in others THEN [run[u] EXCEPT !.overlap = TRUE]
                     ELSE run[u]]
    /\ UNCHANGED <<councilVars, gateVars, appVars, exportVars>>

\* One turn of the loop: the next member evaluates and its result is stored.
DelibEvaluate(t) ==
    /\ run[t].status = "evaluating"
    /\ Len(run[t].done) < Len(MemberOrder)
    /\ run' = [run EXCEPT ![t].done = Append(@, MemberOrder[Len(@) + 1])]
    /\ UNCHANGED <<councilVars, gateVars, appVars, exportVars>>

\* Mutant: the decision is put in the ledger before the members are evaluated,
\* so a call that raises leaves it there.
DelibFail_PartialAppend(t) ==
    /\ run[t].status = "evaluating"
    /\ Len(run[t].done) < Len(MemberOrder)
    /\ run' = [run EXCEPT ![t].status = "raised", ![t].done = <<>>]
    /\ decisions' = Append(decisions, MakeDecision(run[t].pidx))
    /\ ret' = [op |-> "deliberated", raised |-> "Exception", index |-> 0, value |-> <<>>]
    /\ UNCHANGED <<now, proposals, gateVars, appVars, exportVars>>

\* The next member's evaluate raises: the exception leaves deliberated.
DelibFail(t) ==
    /\ run[t].status = "evaluating"
    /\ Len(run[t].done) < Len(MemberOrder)
    /\ run' = [run EXCEPT ![t].status = "raised", ![t].done = <<>>]
    /\ ret' = [op |-> "deliberated", raised |-> "Exception", index |-> 0, value |-> <<>>]
    /\ UNCHANGED <<now, proposals, decisions, gateVars, appVars, exportVars>>

\* After the loop: the decision is built, appended and returned.
DelibAppend(t) ==
    /\ run[t].status = "evaluating"
    /\ Len(run[t].done) = Len(MemberOrder)
    /\ decisions' = Append(decisions, MakeDecision(run[t].pidx))
    /\ run' = [run EXCEPT ![t].status = "returned", ![t].done = <<>>]
    /\ ret' = [op |-> "deliberated", raised |-> "none",
               index |-> Len(decisions) + 1, value |-> <<>>]
    /\ UNCHANGED <<now, proposals, gateVars, appVars, exportVars>>

DelibStep ==
    \E t \in Threads :
        \/ \E i \in 1..MaxProposals : DelibStart(t, i)
        \/ DelibEvaluate(t)
        \/ DelibFail(t)
        \/ DelibAppend(t)

(*************************** export_decisions *****************************)
\* The file as another process reads it: the chunks that have reached it.
NoFile == [exists |-> FALSE, chunks |-> <<>>]

\* The call: its position, the chunks json.dump has written into the file
\* object's buffer and that have not reached the file, and the next chunk.
NotExporting == [pc |-> "idle", buffer |-> <<>>, next |-> 0]

\* What json.dump writes for the list: the opening bracket, one chunk for
\* each decision, the closing bracket.
Chunk(k) ==
    IF k = 0 THEN <<"[">>
    ELSE IF k = Len(decisions) + 1 THEN <<"]">>
    ELSE <<"decision", k>>

\* open(filepath, 'w'): the file is created or cut to length zero.
ExportOpen ==
    /\ exporter.pc = "idle"
    /\ file' = [exists |-> TRUE, chunks |-> <<>>]
    /\ exporter' = [pc |-> "writing", buffer |-> <<>>, next |-> 0]
    /\ UNCHANGED <<councilVars, gateVars, appVars, run>>

\* json.dump: f.write of the next chunk, into the buffer.
ExportWrite ==
    /\ exporter.pc = "writing"
    /\ exporter.next <= Len(decisions) + 1
    /\ exporter' = [exporter EXCEPT !.buffer = Append(@, Chunk(exporter.next)),
                                    !.next = @ + 1]
    /\ UNCHANGED <<file, councilVars, gateVars, appVars, run>>

\* The buffer is full: what it holds goes to the file.
ExportFlush ==
    /\ exporter.pc = "writing"
    /\ exporter.buffer # <<>>
    /\ file' = [file EXCEPT !.chunks = @ \o exporter.buffer]
    /\ exporter' = [exporter EXCEPT !.buffer = <<>>]
    /\ UNCHANGED <<councilVars, gateVars, appVars, run>>

\* The with block ends: the file is flushed and closed, filepath is returned.
ExportClose ==
    /\ exporter.pc = "writing"
    /\ exporter.next = Len(decisions) + 2
    /\ file' = [file EXCEPT !.chunks = @ \o exporter.buffer]
    /\ exporter' = NotExporting
    /\ ret' = [op |-> "export_decisions", raised |-> "none", index |-> 0, value |-> <<>>]
    /\ UNCHANGED <<now, proposals, decisions, gateVars, appVars, run>>

\* A write raises (the disk is full, the process is interrupted): the with
\* block closes the file with what was flushed so far.
ExportFail ==
    /\ exporter.pc = "writing"
    /\ exporter.next <= Len(decisions) + 1
    /\ exporter' = NotExporting
    /\ ret' = [op |-> "export_decisions", raised |-> "Exception", index |-> 0, value |-> <<>>]
    /\ UNCHANGED <<file, now, proposals, decisions, gateVars, appVars, run>>

ExportStep == ExportOpen \/ ExportWrite \/ ExportFlush \/ ExportClose \/ ExportFail

(*************************** AutoApproveRules *****************************)
MaxRules == 2

\* A condition string "key == 'value'" is held as its three parts, the value
\* without its quotes.
RULES ==
    << [name |-> "Internal Memory Operations",
        conditions |-> << <<"action_type", "==", "memory_write">>, <<"risk_level", "==", "low">> >>,
        result |-> "approve",
        reason |-> "Memory operations are safe"],
       [name |-> "Read-Only Queries",
        conditions |-> << <<"action_type", "==", "read">>, <<"risk_level", "==", "low">> >>,
        result |-> "approve",
        reason |-> "Read operations are safe"],
       [name |-> "Local File Reads",
        conditions |-> << <<"action_type", "==", "file_read">>, <<"risk_level", "==", "low">> >>,
        result |-> "approve",
        reason |-> "Reading local files is safe"],
       [name |-> "Status Checks",
        conditions |-> << <<"action_type", "==", "status_check">>, <<"risk_level", "==", "none">> >>,
        result |-> "approve",
        reason |-> "Status checks are always safe"] >>

\* Other rules a rule list may hold: every kind of condition evaluate reads.
RulePool ==
    { [name |-> "Reads",
       conditions |-> << <<"action_type", "==", "read">> >>,
       result |-> "approve", reason |-> "reads"],
      [name |-> "Low Risk",
       conditions |-> << <<"risk_level", "==", "low">> >>,
       result |-> "approve", reason |-> "low risk"],
      [name |-> "Not High Risk",
       conditions |-> << <<"risk_level", "!=", "high">> >>,
       result |-> "approve", reason |-> "not high risk"],
      [name |-> "Low Risk Reads",
       conditions |-> << <<"action_type", "==", "read">>, <<"risk_level", "!=", "high">> >>,
       result |-> "approve", reason |-> "low risk reads"],
      [name |-> "Cheap",
       conditions |-> << <<"risk_level", "<=", "low">> >>,
       result |-> "approve", reason |-> "cheap"] }

RuleLists == {RULES} \cup UNION {[1..n -> RulePool] : n \in 0..MaxRules}

ContextKeys == {"action_type", "risk_level"}
ActionTypes == {"read", "status_check", "memory_write", "file_read", "write"}
GateRiskLevels == {"none", "low", "medium", "high", "critical"}
ValuesOf(key) == IF key = "action_type" THEN ActionTypes ELSE GateRiskLevels

\* The details dictionaries: any subset of the keys, each with one of its values.
Contexts ==
    UNION { {d \in [S -> ActionTypes \cup GateRiskLevels] : \A k \in S : d[k] \in ValuesOf(k)} :
            S \in SUBSET ContextKeys }

\* dict.get(key): <<v>> for a key that is present, <<>> for None.
Get(details, key) == IF key \in DOMAIN details THEN <<details[key]>> ELSE <<>>

\* One turn of the inner loop: TRUE when the condition does not clear `matches`.
ConditionHolds(condition, details) ==
    IF condition[2] = "=="
    THEN ~(Get(details, condition[1]) # <<condition[3]>>)
    ELSE IF condition[2] = "!="
         THEN ~(Get(details, condition[1]) = <<condition[3]>>)
         ELSE TRUE

\* Mutant: one condition that holds is enough for the rule.
RuleMatches_Any(rule, details) ==
    \E k \in DOMAIN rule.conditions : ConditionHolds(rule.conditions[k], details)

\* The inner loop: `matches` after the rule's conditions.
RuleMatches(rule, details) ==
    \A k \in DOMAIN rule.conditions : ConditionHolds(rule.conditions[k], details)

\* Mutant: the default result built like an approval, with a rule key.
NoMatch_WithRuleKey ==
    [auto_approved |-> FALSE,
     rule |-> "",
     reason |-> "No auto-approve rule matches - requires human approval"]

NoMatch ==
    [auto_approved |-> FALSE,
     reason |-> "No auto-approve rule matches - requires human approval"]

Approval(rule) ==
    [auto_approved |-> TRUE, rule |-> rule.name, reason |-> rule.reason]

\* The outer loop from rule k on: the first matching rule returns.
RECURSIVE EvaluateFrom(_, _, _)
EvaluateFrom(rs, k, details) ==
    IF k > Len(rs) THEN NoMatch
    ELSE IF RuleMatches(rs[k], details) THEN Approval(rs[k])
    ELSE EvaluateFrom(rs, k + 1, details)

\* Mutant: no early return, so the last matching rule decides.
RECURSIVE EvaluateLastFrom(_, _, _, _)
EvaluateLastFrom(rs, k, details, found) ==
    IF k > Len(rs) THEN found
    ELSE EvaluateLastFrom(rs, k + 1, details,
             IF RuleMatches(rs[k], details) THEN Approval(rs[k]) ELSE found)

Evaluate_LastMatch(rs, action_type, risk_level, details) ==
    EvaluateLastFrom(rs, 1, details, NoMatch)

\* evaluate(action_type, risk_level, details) over the rule list rs.
Evaluate(rs, action_type, risk_level, details) == EvaluateFrom(rs, 1, details)

NoCall == [called |-> FALSE, action_type |-> "", risk_level |-> "", details |-> <<>>]
NoResult == [auto_approved |-> FALSE, reason |-> ""]

GateEvaluate ==
    /\ ~gateCall.called
    /\ \E action_type \in {"read", "write"}, risk_level \in {"low", "high"}, details \in Contexts :
         /\ gateCall' = [called |-> TRUE, action_type |-> action_type,
                         risk_level |-> risk_level, details |-> details]
         /\ gateResult' = Evaluate(rules, action_type, risk_level, details)
    /\ UNCHANGED <<rules, outsideGate>>

\* The caller is done with the result; the object is ready for the next call.
GateReturn ==
    /\ gateCall.called
    /\ gateCall' = NoCall
    /\ gateResult' = NoResult
    /\ UNCHANGED <<rules, outsideGate>>

(************************** NotificationManager ***************************)
MaxMessages == 4

batch_size == 3

\* The coroutines that call into one NotificationManager on one event loop.
Coroutines == {1, 2}

\* pending holds the messages by the number of the notify call that made
\* them.  sent, count and event are not fields of the object: sent is the
\* list of batches router.send_all was called with, count the number of
\* notify calls so far, event what the last step was.
NoNotifier ==
    [pending |-> <<>>,
     sent |-> <<>>,
     count |-> 0,
     coro |-> [c \in Coroutines |-> "idle"],
     event |-> "none"]

\* notify(message): the message is appended; when the batch is full, flush
\* builds its text from pending and calls router.send_all, where the
\* coroutine is suspended at `await adapter.send`.
Notify(c) ==
    /\ notifier.coro[c] = "idle"
    /\ notifier.count < MaxMessages
    /\ LET m == notifier.count + 1
           pending == Append(notifier.pending, m)
       IN  notifier' =
               IF Len(pending) >= batch_size
               THEN [notifier EXCEPT !.pending = pending,
                                     !.count = m,
                                     !.sent = Append(@, pending),
                                     !.coro[c] = "notify",
                                     !.event = "suspended"]
               ELSE [notifier EXCEPT !.pending = pending,
                                     !.count = m,
                                     !.event = "notify_returned"]
    /\ UNCHANGED <<councilVars, gateVars, run, exportVars,
                   webchat, tasks, cron, architect, health>>

\* flush(), called on its own: nothing to do when pending is empty.
Flush(c) ==
    /\ notifier.coro[c] = "idle"
    /\ notifier' =
           IF notifier.pending = <<>>
           THEN [notifier EXCEPT !.event = "flush_returned"]
           ELSE [notifier EXCEPT !.sent = Append(@, notifier.pending),
                                 !.coro[c] = "flush",
                                 !.event = "suspended"]
    /\ UNCHANGED <<councilVars, gateVars, run, exportVars,
                   webchat, tasks, cron, architect, health>>

\* router.send_all returns to the suspended flush: pending.clear(), and the
\* flush, and the notify that called it, return.
SendAllReturns(c) ==
    /\ notifier.coro[c] # "idle"
    /\ notifier' = [notifier EXCEPT !.pending = <<>>,
                                    !.coro[c] = "idle",
                                    !.event = notifier.coro[c] \o "_returned"]
    /\ UNCHANGED <<councilVars, gateVars, run, exportVars,
                   webchat, tasks, cron, architect, health>>

(***************************** WebChatAdapter *****************************)
MaxEnqueued == 4
MaxReceives == 4

\* message_queue holds the messages by the number of the enqueue call that
\* brought them.  received, count and event are not fields of the object:
\* received is the list of the lists receive has returned, count the number
\* of enqueue calls so far, event what the last call was.
NoWebChat ==
    [message_queue |-> <<>>, received |-> <<>>, count |-> 0, event |-> "none"]

\* enqueue(message)
Enqueue ==
    /\ webchat.count < MaxEnqueued
    /\ webchat' = [webchat EXCEPT !.message_queue = Append(@, webchat.count + 1),
                                  !.count = @ + 1,
                                  !.event = "enqueued"]
    /\ UNCHANGED <<councilVars, gateVars, run, exportVars,
                   notifier, tasks, cron, architect, health>>

\* Mutant: the copy is returned and the queue is left as it is, as
\* DiscordAdapter.receive does.
Receive_NoClear ==
    /\ Len(webchat.received) < MaxReceives
    /\ webchat' = [webchat EXCEPT !.received = Append(@, webchat.message_queue),
                                  !.event = "received"]
    /\ UNCHANGED <<councilVars, gateVars, run, exportVars,
                   notifier, tasks, cron, architect, health>>

\* receive(): the body has no await, so it runs in one piece: the queue is
\* copied, cleared, and the copy returned.
Receive ==
    /\ Len(webchat.received) < MaxReceives
    /\ webchat' = [webchat EXCEPT !.received = Append(@, webchat.message_queue),
                                  !.message_queue = <<>>,
                                  !.event = "received"]
    /\ UNCHANGED <<councilVars, gateVars, run, exportVars,
                   notifier, tasks, cron, architect, health>>

(****************************** TaskManager *******************************)
MaxTasks == 2

\* A title is held as its words; a word may be the text of a task id.
Titles == {<<"rent">>, <<"pay", "rent">>, <<"after", "task_1">>}

\* What a caller may pass to complete: an id or a piece of a title.
CompleteArgs == {"task_0", "task_1", "task_7", "rent", "pay", "tax"}

\* f"task_{datetime.now().strftime('%Y%m%d_%H%M%S')}"
TaskId(t) == "task_" \o ToString(FormatId(t))

\* task_id in t["title"], for a task_id that is one word.
InTitle(task_id, title) == \E k \in DOMAIN title : title[k] = task_id

\* ret is not a field of the object: it holds the last call, its argument
\* and what it returned.
NoTasks == [tasks |-> <<>>, ret |-> [op |-> "none", arg |-> "", value |-> ""]]

\* add(title): domain and priority are read by no operation modelled here.
AddTask ==
    /\ Len(tasks.tasks) < MaxTasks
    /\ \E title \in Titles :
         tasks' = [tasks |-> Append(tasks.tasks,
                                 [id |-> TaskId(now), title |-> title,
                                  status |-> "pending", completed |-> <<>>]),
                   ret |-> [op |-> "add", arg |-> "", value |-> "Task added"]]
    /\ UNCHANGED <<councilVars, gateVars, run, exportVars,
                   notifier, webchat, cron, architect, health>>

\* The loop of complete from task k on: the first task whose id is task_id
\* or whose title holds task_id is marked and the call returns.
RECURSIVE CompleteFrom(_, _, _)
CompleteFrom(ts, k, task_id) ==
    IF k > Len(ts)
    THEN [tasks |-> ts, value |-> "Task not found"]
    ELSE IF ts[k].id = task_id \/ InTitle(task_id, ts[k].title)
         THEN [tasks |-> [ts EXCEPT ![k].status = "completed",
                                    ![k].completed = <<now>>],
               value |-> "Completed"]
         ELSE CompleteFrom(ts, k + 1, task_id)

\* complete(task_id)
CompleteTask ==
    /\ \E task_id \in CompleteArgs :
         LET done == CompleteFrom(tasks.tasks, 1, task_id)
         IN  tasks' = [tasks |-> done.tasks,
                       ret |-> [op |-> "complete", arg |-> task_id, value |-> done.value]]
    /\ UNCHANGED <<councilVars, gateVars, run, exportVars,
                   notifier, webchat, cron, architect, health>>

(***************************** CronScheduler ******************************)
MaxJobs == 2
MaxResults == 2
MaxClock == 3900

\* datetime.now() as the scheduler reads it, in seconds; the parts of it the
\* scheduler uses.
ClockSteps == {3300}
Minute(t) == (t \div 60) % 60
Hour(t) == (t \div 3600) % 24
Date(t) == t \div 86400
Weekday(t) == (Date(t) + 3) % 7

HourSeconds == 3600
WeekSeconds == 604800

NewJob(name, schedule, hour, minute, day_of_week, enabled) ==
    [name |-> name, schedule |-> schedule, hour |-> hour, minute |-> minute,
     day_of_week |-> day_of_week, enabled |-> enabled,
     last_run |-> <<>>, last_status |-> <<>>, consecutive_failures |-> 0]

\* The jobs a caller adds: the two PersonalAIArchitect registers, and a job
\* made with enabled = False.  An hour or day_of_week of None is held as -1.
JobPool ==
    { NewJob("heartbeat", "hourly", -1, 0, -1, TRUE),
      NewJob("backup_git", "hourly", -1, 5, -1, TRUE),
      NewJob("paused", "hourly", -1, 0, -1, FALSE) }

\* How a run of the command can end: the exit code, or an exception out of
\* subprocess.run (the timeout, an OSError), and whether stdout and stderr
\* decode as UTF-8.
Outcomes == {"exit_0", "exit_0_undecodable", "exit_1", "exit_1_undecodable", "raised"}

\* ret is not a field of the object: the last call, what it returned and
\* the time it read.  jidx in a result is not a key of the dictionary: it
\* is the index of the job object the call was given.
NoCron ==
    [clock |-> 0, jobs |-> <<>>, results |-> <<>>,
     ret |-> [op |-> "none", value |-> {}, at |-> 0, outcome |-> "none"]]

\* Time passes.
ClockAdvance ==
    /\ \E d \in ClockSteps :
         /\ cron.clock + d <= MaxClock
         /\ cron' = [cron EXCEPT !.clock = @ + d]
    /\ UNCHANGED <<councilVars, gateVars, run, exportVars,
                   notifier, webchat, tasks, architect, health>>

\* add_job(job)
AddJob ==
    /\ Len(cron.jobs) < MaxJobs
    /\ \E job \in JobPool :
         cron' = [cron EXCEPT !.jobs = Append(@, job),
                              !.ret = [op |-> "add_job", value |-> {},
                                       at |-> cron.clock, outcome |-> "none"]]
    /\ UNCHANGED <<councilVars, gateVars, run, exportVars,
                   notifier, webchat, tasks, architect, health>>

\* The body of get_due_jobs' loop for one job, at time t.
IsDue(job, t) ==
    /\ job.enabled
    /\ \/ /\ job.schedule = "hourly"
          /\ job.last_run = <<>> \/ t - job.last_run[1] >= HourSeconds
          /\ Minute(t) >= job.minute
       \/ /\ job.schedule = "daily"
          /\ job.last_run = <<>> \/ Date(job.last_run[1]) < Date(t)
          /\ Hour(t) >= job.hour /\ Minute(t) >= job.minute
       \/ /\ job.schedule = "weekly"
          /\ job.last_run = <<>> \/ t - job.last_run[1] >= WeekSeconds
          /\ Weekday(t) = job.day_of_week /\ Hour(t) >= job.hour

\* get_due_jobs(): the jobs returned, by their index in jobs.
GetDueJobs ==
    /\ cron' = [cron EXCEPT !.ret =
                   [op |-> "get_due_jobs",
                    value |-> {j \in DOMAIN cron.jobs : IsDue(cron.jobs[j], cron.clock)},
                    at |-> cron.clock, outcome |-> "none"]]
    /\ UNCHANGED <<councilVars, gateVars, run, exportVars,
                   notifier, webchat, tasks, architect, health>>

\* result["success"] when run_job reaches the end.
Success(outcome) == outcome \in {"exit_0", "exit_0_undecodable"}

\* job.consecutive_failures when run_job reaches the end: line 85 when the
\* try block ran through, line 89 when something in it raised.
FailuresAfter(job, outcome) ==
    IF outcome = "exit_0" THEN 0
    ELSE job.consecutive_failures + 1

\* run_job as it would be if last_run were set only after a successful run.
RunJob_LastRunOnSuccess(j, outcome, d) ==
    /\ j \in DOMAIN cron.jobs
    /\ Len(cron.results) < MaxResults
    /\ cron.clock + d <= MaxClock
    /\ LET job == cron.jobs[j]
           end == cron.clock + d
       IN  cron' = [clock |-> end,
                    jobs |-> [cron.jobs EXCEPT
                                 ![j].consecutive_failures = FailuresAfter(job, outcome),
                                 ![j].last_run =
                                     IF Success(outcome) THEN <<end>> ELSE job.last_run,
                                 ![j].last_status =
                                     <<IF Success(outcome) THEN "ok" ELSE "failed">>],
                    results |-> Append(cron.results,
                                    [job |-> job.name, success |-> Success(outcome),
                                     end |-> end, jidx |-> j]),
                    ret |-> [op |-> "run_job", value |-> {j},
                             at |-> end, outcome |-> outcome]]
    /\ UNCHANGED <<councilVars, gateVars, run, exportVars,
                   notifier, webchat, tasks, architect, health>>

\* run_job(jobs[j]): the command takes d seconds and ends with outcome.
RunJob(j, outcome, d) ==
    /\ j \in DOMAIN cron.jobs
    /\ Len(cron.results) < MaxResults
    /\ cron.clock + d <= MaxClock
    /\ LET job == cron.jobs[j]
           end == cron.clock + d
       IN  cron' = [clock |-> end,
                    jobs |-> [cron.jobs EXCEPT
                                 ![j].consecutive_failures = FailuresAfter(job, outcome),
                                 ![j].last_run = <<end>>,
                                 ![j].last_status =
                                     <<IF Success(outcome) THEN "ok" ELSE "failed">>],
                    results |-> Append(cron.results,
                                    [job |-> job.name, success |-> Success(outcome),
                                     end |-> end, jidx |-> j]),
                    ret |-> [op |-> "run_job", value |-> {j},
                             at |-> end, outcome |-> outcome]]
    /\ UNCHANGED <<councilVars, gateVars, run, exportVars,
                   notifier, webchat, tasks, architect, health>>

RunAnyJob ==
    \E j \in 1..MaxJobs, outcome \in Outcomes, d \in {0, 300} : RunJob(j, outcome, d)

(******************** PersonalAIArchitect.switch_domain ********************)
MaxCalls == 3

\* What callers pass as domain.
DomainArgs == {"personal", "work", "Work", "home", "", "personal "}

\* ret and calls are not fields of the object: the last call with what it
\* returned, and the arguments of the calls made so far.
NoArchitect ==
    [active_domain |-> "personal",
     ret |-> [op |-> "none", arg |-> "", value |-> ""],
     calls |-> <<>>]

\* switch_domain as it would be if it assigned before it checked.
SwitchDomain_AssignFirst(domain) ==
    /\ Len(architect.calls) < MaxCalls
    /\ architect' =
         [active_domain |-> domain,
          ret |-> [op |-> "switch_domain", arg |-> domain,
                   value |-> IF domain \in {"personal", "work"}
                             THEN "Switched to " \o domain \o " domain"
                             ELSE "Unknown domain: " \o domain],
          calls |-> Append(architect.calls, domain)]
    /\ UNCHANGED <<councilVars, gateVars, run, exportVars,
                   notifier, webchat, tasks, cron, health>>

\* switch_domain(domain)
SwitchDomain(domain) ==
    /\ Len(architect.calls) < MaxCalls
    /\ architect' =
         IF domain \in {"personal", "work"}
         THEN [active_domain |-> domain,
               ret |-> [op |-> "switch_domain", arg |-> domain,
                        value |-> "Switched to " \o domain \o " domain"],
               calls |-> Append(architect.calls, domain)]
         ELSE [active_domain |-> architect.active_domain,
               ret |-> [op |-> "switch_domain", arg |-> domain,
                        value |-> "Unknown domain: " \o domain],
               calls |-> Append(architect.calls, domain)]
    /\ UNCHANGED <<councilVars, gateVars, run, exportVars,
                   notifier, webchat, tasks, cron, health>>

SwitchAnyDomain == \E domain \in DomainArgs : SwitchDomain(domain)

(****************************** HealthMonitor ******************************)
MaxChecks == 3

CheckNames == {"Gateway", "Database", "Memory"}

\* What a call of a check function does: it returns a value that is true,
\* returns one that is false, or raises an Exception.
CheckOutcomes == {"truthy", "falsy", "raises"}

\* ret is not a field of the object: the last call and the dictionary it
\* returned; outcomes in it is not a key of the dictionary, it is what each
\* check function did in that call.
NoHealth ==
    [checks |-> <<>>,
     ret |-> [op |-> "none", checks |-> <<>>, overall |-> "", healthy_count |-> 0,
              total_checks |-> 0, outcomes |-> <<>>]]

\* add_check(name, check_func)
AddCheck ==
    /\ Len(health.checks) < MaxChecks
    /\ \E name \in CheckNames :
         health' = [checks |-> Append(health.checks, [name |-> name]),
                    ret |-> [NoHealth.ret EXCEPT !.op = "add_check"]]
    /\ UNCHANGED <<councilVars, gateVars, run, exportVars,
                   notifier, webchat, tasks, cron, architect>>

\* The body of run_all's loop as it would be if a warning degraded overall.
CheckStep_WarningDegrades(results, name, outcome) ==
    IF outcome = "raises"
    THEN [results EXCEPT !.checks = Append(@, [name |-> name, status |-> "error"]),
                         !.overall = "degraded"]
    ELSE [results EXCEPT
             !.checks = Append(@, [name |-> name,
                                   status |-> IF outcome = "truthy" THEN "ok"
                                              ELSE "warning"]),
             !.overall = IF outcome = "truthy" THEN @ ELSE "degraded",
             !.healthy_count = IF outcome = "truthy" THEN @ + 1 ELSE @]

\* The body of run_all's loop for one check: results and healthy_count
\* after it.
CheckStep(results, name, outcome) ==
    IF outcome = "raises"
    THEN [results EXCEPT !.checks = Append(@, [name |-> name, status |-> "error"]),
                         !.overall = "degraded"]
    ELSE [results EXCEPT
             !.checks = Append(@, [name |-> name,
                                   status |-> IF outcome = "truthy" THEN "ok"
                                              ELSE "warning"]),
             !.healthy_count = IF outcome = "truthy" THEN @ + 1 ELSE @]

\* run_all's loop from check k on.
RECURSIVE RunChecks(_, _, _)
RunChecks(results, k, outcomes) ==
    IF k > Len(health.checks)
    THEN results
    ELSE RunChecks(CheckStep(results, health.checks[k].name, outcomes[k]),
                   k + 1, outcomes)

\* run_all()
RunAll ==
    /\ \E outcomes \in [DOMAIN health.checks -> CheckOutcomes] :
         health' = [health EXCEPT !.ret =
             [RunChecks([op |-> "run_all", checks |-> <<>>, overall |-> "healthy",
                         healthy_count |-> 0, total_checks |-> 0,
                         outcomes |-> outcomes], 1, outcomes)
              EXCEPT !.total_checks = Len(health.checks)]]
    /\ UNCHANGED <<councilVars, gateVars, run, exportVars,
                   notifier, webchat, tasks, cron, architect>>

InitCouncil ==
    /\ now = 0
    /\ proposals = <<>>
    /\ decisions = <<>>
    /\ ret = NoReturn
    /\ run = [t \in Threads |-> Idle]
    /\ file = NoFile
    /\ exporter = NotExporting

InitGateIdle ==
    /\ rules = RULES
    /\ gateCall = NoCall
    /\ gateResult = NoResult

InitApp ==
    /\ notifier = NoNotifier
    /\ webchat = NoWebChat
    /\ tasks = NoTasks
    /\ cron = NoCron
    /\ architect = NoArchitect
    /\ health = NoHealth

Init == InitCouncil /\ InitGateIdle /\ InitApp

Next == Tick \/ Submit \/ Deliberate \/ GetPending

\* A council over several proposals.
Spec == Init /\ [][Next]_vars

NextEval == Tick \/ SubmitFirst \/ Deliberate

\* A council given one proposal, of any attributes.
SpecEval == Init /\ [][NextEval]_vars

InitGate ==
    /\ InitCouncil
    /\ InitApp
    /\ rules \in RuleLists
    /\ gateCall = NoCall
    /\ gateResult = NoResult

NextGate == GateEvaluate \/ GateReturn

\* One AutoApproveRules object, over any rule list.
SpecGate == InitGate /\ [][NextGate]_vars

NextSteps == Tick \/ SubmitDefaults \/ DelibStep

\* Callers on two threads, each running deliberated statement by statement.
SpecSteps == Init /\ [][NextSteps]_vars

NextExport ==
    \/ exporter.pc = "idle" /\ (Tick \/ SubmitDefaults \/ Deliberate)
    \/ ExportStep

\* One council whose ledger is exported between calls, the file being read
\* by another process at any moment.
SpecExport == Init /\ [][NextExport]_vars

NextArbiter == Submit \/ Deliberate \/ GateEvaluate \/ GateReturn

\* A caller that holds both objects, as PersonalAIArchitect does: it may ask
\* the rules about an action context and have the council deliberate.
SpecArbiter == Init /\ [][NextArbiter]_vars

NextPure == SubmitWork \/ Deliberate \/ GateEvaluate \/ GateReturn

\* The council's evaluators and the rules' evaluate called in any order, on
\* proposals of every risk level and on every context.
SpecPure == Init /\ [][NextPure]_vars

NextQuery == Tick \/ Submit \/ Deliberate \/ DecisionsForDomain

\* A council whose ledger is queried by domain between calls.
SpecQuery == Init /\ [][NextQuery]_vars

NextNotify == \E c \in Coroutines : Notify(c) \/ Flush(c) \/ SendAllReturns(c)

\* Two coroutines notifying and flushing through one NotificationManager.
SpecNotify == Init /\ [][NextNotify]_vars

NextWebChat == Enqueue \/ Receive

\* One WebChatAdapter, fed by enqueue and drained by receive.
SpecWebChat == Init /\ [][NextWebChat]_vars

NextTasks == Tick \/ AddTask \/ CompleteTask

\* One TaskManager, tasks added and completed as time passes.
SpecTasks == Init /\ [][NextTasks]_vars

NextCron == ClockAdvance \/ AddJob \/ GetDueJobs \/ RunAnyJob

\* One CronScheduler: jobs are added, asked for and run as time passes.
SpecCron == Init /\ [][NextCron]_vars

NextArchitect == SwitchAnyDomain

\* One PersonalAIArchitect whose domain is switched.
SpecArchitect == Init /\ [][NextArchitect]_vars

NextHealth == AddCheck \/ RunAll

\* One HealthMonitor: checks are registered and run.
SpecHealth == Init /\ [][NextHealth]_vars

(******************************* claims ***********************************)
ProposalOf(d) == proposals[d.pidx]

FullVotes(d) ==
    <<d.council_votes.strategist, d.council_votes.skeptic, d.council_votes.guardian>>

\* C1: every Decision recorded for a proposal with risk_level = critical has
\* final_verdict = rejected and consensus = false; the ledger holds no approved
\* Decision for a critical-risk proposal.
C1_CriticalRejected ==
    \A k \in DOMAIN decisions :
        ProposalOf(decisions[k]).risk_level = "critical"
            => /\ decisions[k].decision = "rejected"
               /\ decisions[k].consensus = FALSE

\* C2: the Moderator's rating is computed from the ratings Strategist, Skeptic
\* and Guardian gave the same proposal: approved if and only if the weighted
\* approvals (support/approved 1.0, conditional 0.5, reject 0.0) exceed the
\* number of reject ratings.
C2_ModeratorUsesActualRatings ==
    \A k \in DOMAIN decisions :
        LET given == FullVotes(decisions[k])
        IN  (decisions[k].council_votes.moderator = "approved")
                <=> (Approvals2(given, 3) > 2 * Rejections(given, 3))

\* C3: every Decision in the ledger has requires_human_approval =
\* (proposal.external_action AND final_verdict != approved).
C3_HumanApprovalFlag ==
    \A k \in DOMAIN decisions :
        decisions[k].requires_human_approval
            = (ProposalOf(decisions[k]).external_action /\ decisions[k].decision # "approved")

\* C3 witness: a Decision is in the ledger for an external action of critical
\* risk, the case in which the flag is meant to be raised.
C3_Witness ==
    \E k \in DOMAIN decisions :
        /\ ProposalOf(decisions[k]).external_action
        /\ ProposalOf(decisions[k]).risk_level = "critical"

\* C4: for every proposal with risk_level = critical and external_action = true
\* the Decision has final_verdict = rejected and requires_human_approval = true.
C4_CriticalExternalNeedsHuman ==
    \A k \in DOMAIN decisions :
        (ProposalOf(decisions[k]).risk_level = "critical"
         /\ ProposalOf(decisions[k]).external_action)
            => /\ decisions[k].decision = "rejected"
               /\ decisions[k].requires_human_approval = TRUE

\* C5: deliberating a proposal whose id already has a Decision in the ledger
\* fails with DuplicateDecision and leaves the ledger as it was.
C5_DuplicateDecisionFails ==
    [][\A i \in 1..MaxProposals :
          (i \in DOMAIN proposals /\ proposals[i].id \in DecidedIds /\ Deliberated(i))
              => (decisions' = decisions /\ ret'.raised = "DuplicateDecision")]_vars

\* C6: in every reachable state the ledger holds at most one Decision per
\* proposal_id.
C6_OneDecisionPerProposalId ==
    \A j, k \in DOMAIN decisions :
        j # k => decisions[j].proposal_id # decisions[k].proposal_id

\* C7: every submitted Proposal has an id that differs from the id of every
\* Proposal submitted before it, also within one clock second, and ids are
\* ordered by creation.
C7_UniqueOrderedIds ==
    \A i, j \in DOMAIN proposals :
        i < j => /\ proposals[i].id # proposals[j].id
                 /\ proposals[i].id <= proposals[j].id

MatchingRules == {i \in DOMAIN rules : RuleMatches(rules[i], gateCall.details)}

Min(S) == CHOOSE x \in S : \A y \in S : x <= y

\* C8: evaluation is first-match-wins: when the context satisfies one or more
\* rules, the returned auto_approved, rule name and reason are those of the
\* earliest matching rule in list order, the same as evaluating that rule alone.
C8_FirstMatchWins ==
    (gateCall.called /\ MatchingRules # {})
        => LET first == rules[Min(MatchingRules)]
           IN  /\ gateResult.auto_approved = TRUE
               /\ gateResult.rule = first.name
               /\ gateResult.reason = first.reason
               /\ gateResult = Evaluate(<<first>>, gateCall.action_type,
                                        gateCall.risk_level, gateCall.details)

\* C8 witness: a call has returned whose context satisfies two rules of
\* different names.
C8_Witness ==
    /\ gateCall.called
    /\ \E i, j \in MatchingRules : i < j /\ rules[i].name # rules[j].name

AutoActionTypes == {"read", "status_check", "memory_write", "file_read"}

\* C9: with the default rule set a context is auto-approved only if its
\* action_type is read, status_check, memory_write or file_read and its
\* risk_level is low or none; a context with risk_level medium, high or
\* critical, or with another action_type, is not auto-approved.
C9_DefaultRulesOnlyLowRisk ==
    (gateCall.called /\ rules = RULES)
        => LET d == gateCall.details
           IN  /\ gateResult.auto_approved
                   => /\ Get(d, "action_type") \in {<<a>> : a \in AutoActionTypes}
                      /\ Get(d, "risk_level") \in {<<"low">>, <<"none">>}
               /\ Get(d, "risk_level") \in {<<"medium">>, <<"high">>, <<"critical">>}
                   => ~gateResult.auto_approved
               /\ Get(d, "action_type") \notin {<<a>> : a \in AutoActionTypes}
                   => ~gateResult.auto_approved

\* C9 witness: the default rules have auto-approved a call.
C9_Witness ==
    /\ gateCall.called
    /\ rules = RULES
    /\ gateResult.auto_approved

\* C10: a predicate (== or !=) whose key is missing from the context evaluates
\* to false, so a rule that holds such a predicate never matches.
C10_MissingKeyNeverMatches ==
    gateCall.called
        => \A i \in DOMAIN rules :
              (\E k \in DOMAIN rules[i].conditions :
                  /\ rules[i].conditions[k][2] \in {"==", "!="}
                  /\ rules[i].conditions[k][1] \notin DOMAIN gateCall.details)
                  => /\ ~RuleMatches(rules[i], gateCall.details)
                     /\ gateResult # Approval(rules[i])

FastPathVotes ==
    [strategist |-> "support", skeptic |-> "support",
     guardian |-> "approved", moderator |-> "approved"]

\* C11: when the rules auto-approve the action context, deliberate skips the
\* four role evaluators and records a Decision with final_verdict = approved,
\* council_votes = {strategist: support, skeptic: support, guardian: approved,
\* moderator: approved}, consensus = true, requires_human_approval = false and
\* matched_rule = the name of the matching rule.
C11_AutoApprovedFastPath ==
    [][\A i \in 1..MaxProposals :
          (gateCall.called /\ gateResult.auto_approved /\ Deliberated(i))
              => LET d == decisions'[Len(decisions')]
                 IN  /\ d.decision = "approved"
                     /\ d.consensus = TRUE
                     /\ d.requires_human_approval = FALSE
                     /\ d.council_votes = FastPathVotes
                     /\ "matched_rule" \in DOMAIN d
                     /\ d.matched_rule = gateResult.rule]_vars

\* C12: within one deliberate call the Moderator's evaluation does not start
\* until the Strategist, Skeptic and Guardian evaluations of that proposal
\* have all completed, whatever the other thread is doing.
C12_ModeratorLast ==
    \A t \in Threads :
        \A k \in DOMAIN run[t].done :
            run[t].done[k] = "moderator"
                => {run[t].done[j] : j \in 1..(k - 1)} = {"strategist", "skeptic", "guardian"}

\* C12 witness: a call has evaluated the Moderator while the other thread is
\* in the middle of its own call.
C12_Witness ==
    \E t, u \in Threads :
        /\ t # u
        /\ \E k \in DOMAIN run[t].done : run[t].done[k] = "moderator"
        /\ run[u].status = "evaluating"
        /\ Len(run[u].done) \in 1..2

\* Proposal i has been given to no deliberated call that recorded a Decision.
Undecided(i) == \A k \in DOMAIN decisions : decisions[k].pidx # i

SubmissionOrder == [i \in 1..Len(proposals) |-> i]

\* C13: pending() returns exactly the submitted proposals that have no
\* Decision in the ledger, each once, in submission order; an undecided
\* proposal is never missing, also after another proposal has been decided.
C13_PendingIsUndecided ==
    GetPendingProposals = SelectSeq(SubmissionOrder, Undecided)

PendingSet == {GetPendingProposals[j] : j \in DOMAIN GetPendingProposals}

\* C14: once a Decision for a proposal is in the ledger, that proposal is
\* absent from the result of pending() in every later state.
C14_DecidedNeverPending ==
    \A k \in DOMAIN decisions : decisions[k].pidx \notin PendingSet

\* C14 witness: a proposal was decided and another operation followed (a
\* second proposal, of another id, was decided after it).
C14_Witness ==
    /\ Len(decisions) >= 2
    /\ decisions[1].pidx # decisions[2].pidx
    /\ decisions[1].proposal_id # decisions[2].proposal_id

\* C15: pending() is read-only and idempotent: a call changes neither the
\* proposal list nor the ledger, and a call that follows another call with no
\* submit or deliberate in between returns the same result.
C15_PendingReadOnly ==
    [][ret'.op = "get_pending_proposals"
          => /\ proposals' = proposals
             /\ decisions' = decisions
             /\ ret.op = "get_pending_proposals" => ret'.value = ret.value]_vars

\* C15 witness: a call has returned a list that is not empty while the ledger
\* is not empty either.
C15_Witness ==
    /\ ret.op = "get_pending_proposals"
    /\ ret.value # <<>>
    /\ decisions # <<>>

\* C16: submit with priority outside 1..5 or with a risk_level that is not
\* low, medium, high or critical fails with InvalidProposal and creates no
\* Proposal, so the list never holds such a proposal.
C16_InvalidProposalRejected ==
    /\ \A i \in DOMAIN proposals :
           /\ proposals[i].priority \in 1..5
           /\ proposals[i].risk_level \in RiskLevels
    /\ ret.op = "submit_proposal" /\ ret.raised = "none"
           => /\ proposals[ret.index].priority \in 1..5
              /\ proposals[ret.index].risk_level \in RiskLevels

IsPrefix(a, b) == Len(a) <= Len(b) /\ SubSeq(b, 1, Len(a)) = a

\* C17: the ledger is append-only: the ledger of a state is a prefix of the
\* ledger of the next state, so of every later state (no Decision is deleted,
\* reordered or modified); the list of submitted proposals likewise.
C17_AppendOnly ==
    [][IsPrefix(decisions, decisions') /\ IsPrefix(proposals, proposals')]_vars

\* C17 witness: the ledger and the proposal list have both grown twice.
C17_Witness ==
    /\ Len(decisions) >= 2
    /\ Len(proposals) >= 2

DecisionsFor(id) == {k \in DOMAIN decisions : decisions[k].proposal_id = id}

\* C18: when two deliberations of the same proposal id run concurrently,
\* exactly one Decision is appended for that id and the other call fails.
C18_ConcurrentAppendExclusive ==
    \A t, u \in Threads :
        (/\ t # u
         /\ run[t].status = "returned" /\ run[t].overlap
         /\ run[u].status \in {"returned", "raised"} /\ run[u].overlap
         /\ proposals[run[t].pidx].id = proposals[run[u].pidx].id)
            => /\ run[u].status = "raised"
               /\ Cardinality(DecisionsFor(proposals[run[t].pidx].id)) = 1

\* The file holds one whole JSON list.
FileComplete ==
    /\ Len(file.chunks) >= 2
    /\ file.chunks[1] = <<"[">>
    /\ file.chunks[Len(file.chunks)] = <<"]">>
    /\ \A k \in 2..(Len(file.chunks) - 1) : file.chunks[k] = <<"decision", k - 1>>

\* C19: export is atomic: whoever reads the exported file, at any moment,
\* sees a complete export, never a partly written one, also after an export
\* that failed midway.
C19_ExportAtomic == file.exists => FileComplete

\* C20: a deliberate call in which a role evaluator fails appends no Decision
\* and leaves the result of pending() as it was; a retry of deliberate on the
\* same proposal that runs to its end appends exactly one Decision, the one
\* of that proposal.
C20_FailedDeliberationIsClean ==
    [][\A t \in Threads :
          /\ (run[t].status = "evaluating" /\ run'[t].status = "raised")
                 => /\ decisions' = decisions
                    /\ GetPendingProposals' = GetPendingProposals
          /\ (run[t].status = "evaluating" /\ run[t].retry /\ run'[t].status = "returned")
                 => decisions' = Append(decisions, MakeDecision(run[t].pidx))]_vars

\* C20 witness: a call failed, the proposal was still pending, and the retry
\* on the same proposal has returned its Decision.
C20_Witness ==
    \E t \in Threads :
        /\ run[t].status = "returned"
        /\ run[t].retry
        /\ Cardinality(DecisionsFor(proposals[run[t].pidx].id)) = 1

\* C21: Decision.consensus is true if and only if the weighted approvals of
\* the Strategist, Skeptic and Guardian ratings given to that proposal are at
\* least 2.0; at the boundary (risk_level = high, estimated_cost = 150,
\* external_action = false) Skeptic and Guardian are conditional, the
\* approvals are exactly 2.0, the verdict is approved, consensus is true and
\* requires_human_approval is false.
C21_ConsensusFromActualRatings ==
    \A k \in DOMAIN decisions :
        LET d == decisions[k]
            p == ProposalOf(d)
        IN  /\ d.consensus <=> (Approvals2(FullVotes(d), 3) >= 2 * 2)
            /\ (p.risk_level = "high" /\ p.estimated_cost = 15000 /\ ~p.external_action)
                   => /\ d.council_votes.skeptic = "conditional"
                      /\ d.council_votes.guardian = "conditional"
                      /\ d.approvals2 = 2 * 2
                      /\ d.decision = "approved"
                      /\ d.consensus = TRUE
                      /\ d.requires_human_approval = FALSE

\* The proposal of the module's quick test: personal, priority 4, external
\* action, cost 0.50, low risk.
IsQuickTestProposal(p) ==
    /\ p.domain = "personal"
    /\ p.priority = 4
    /\ p.external_action = TRUE
    /\ p.estimated_cost = 50
    /\ p.risk_level = "low"

\* C22: for a proposal with domain = personal, priority = 4, external_action
\* = true, estimated_cost = 0.50 and risk_level = low the Decision has
\* Strategist = support, Skeptic = conditional, Guardian = approved,
\* approvals = 2.5, rejections = 0, final_verdict = approved, consensus = true
\* and requires_human_approval = false.
C22_QuickTestDecision ==
    \A k \in DOMAIN decisions :
        IsQuickTestProposal(ProposalOf(decisions[k]))
            => /\ decisions[k].council_votes.strategist = "support"
               /\ decisions[k].council_votes.skeptic = "conditional"
               /\ decisions[k].council_votes.guardian = "approved"
               /\ decisions[k].approvals2 = 5
               /\ decisions[k].rejections = 0
               /\ decisions[k].decision = "approved"
               /\ decisions[k].consensus = TRUE
               /\ decisions[k].requires_human_approval = FALSE

\* C22 witness: the quick test's proposal has been deliberated.
C22_Witness ==
    \E k \in DOMAIN decisions : IsQuickTestProposal(ProposalOf(decisions[k]))

\* The three entries the Skeptic may raise, in the claimed order, and when
\* each applies.
ConcernEntry(p, n) ==
    CASE n = 1 -> "External action requires explicit approval"
      [] n = 2 -> "Risk level is " \o p.risk_level
      [] n = 3 -> "Very high priority needs justification"

ConcernApplies(p, n) ==
    CASE n = 1 -> p.external_action = TRUE
      [] n = 2 -> p.risk_level \in {"high", "critical"}
      [] n = 3 -> p.priority > 4

\* C23: for every proposal the Skeptic's concerns list holds, in this order,
\* an entry for external_action = true, an entry for risk_level high or
\* critical and an entry for priority > 4, and nothing else; its rating is
\* reject if risk_level = critical, else conditional if the list is not
\* empty, else support; that rating is the Skeptic's vote in the Decision.
C23_SkepticConcernsAndRating ==
    \A k \in DOMAIN decisions :
        LET p == ProposalOf(decisions[k])
            skeptic == EvaluateSkeptic(p)
            applying == SelectSeq(<<1, 2, 3>>, LAMBDA n : ConcernApplies(p, n))
        IN  /\ skeptic.concerns = [j \in DOMAIN applying |-> ConcernEntry(p, applying[j])]
            /\ skeptic.rating = IF p.risk_level = "critical" THEN "reject"
                                ELSE IF Len(applying) > 0 THEN "conditional"
                                ELSE "support"
            /\ decisions[k].council_votes.skeptic = skeptic.rating

\* C23 witness: a proposal to which all three entries apply has been
\* deliberated.
C23_Witness ==
    \E k \in DOMAIN decisions :
        \A n \in 1..3 : ConcernApplies(ProposalOf(decisions[k]), n)

\* C24: for every proposal the Guardian's rating is reject if risk_level =
\* critical, else conditional if risk_level = high and estimated_cost > 100
\* (a cost of exactly 100 does not qualify), else approved.
C24_GuardianRating ==
    \A k \in DOMAIN decisions :
        LET p == ProposalOf(decisions[k])
            vote == decisions[k].council_votes.guardian
        IN  /\ p.risk_level = "critical" => vote = "reject"
            /\ (p.risk_level = "high" /\ p.estimated_cost >= 10001) => vote = "conditional"
            /\ (p.risk_level = "high" /\ p.estimated_cost <= 10000) => vote = "approved"
            /\ p.risk_level \notin {"critical", "high"} => vote = "approved"

\* C24 witness: a high-risk proposal costing exactly 100 has been deliberated.
C24_Witness ==
    \E k \in DOMAIN decisions :
        /\ ProposalOf(decisions[k]).risk_level = "high"
        /\ ProposalOf(decisions[k]).estimated_cost = 10000

Roles == {"strategist", "skeptic", "guardian", "moderator"}

\* C25: every Decision in the ledger has a council_votes entry for each of
\* the four roles strategist, skeptic, guardian and moderator, its
\* final_verdict equals the moderator's rating and is approved or rejected,
\* and its consensus equals the moderator's consensus_reached.
C25_DecisionShape ==
    \A k \in DOMAIN decisions :
        LET d == decisions[k]
            moderator_result == EvaluateModerator(ProposalOf(d))
        IN  /\ DOMAIN d.council_votes = Roles
            /\ d.council_votes.moderator = moderator_result.rating
            /\ d.decision = moderator_result.rating
            /\ d.decision \in {"approved", "rejected"}
            /\ d.consensus = moderator_result.consensus_reached

\* C25 witness: a Decision is in the ledger in which the members did not all
\* agree (the Skeptic or the Guardian did not rate as the Moderator did).
C25_Witness ==
    \E k \in DOMAIN decisions :
        /\ decisions[k].council_votes.skeptic = "reject"
        /\ decisions[k].council_votes.guardian = "reject"

\* C26, as the claim words it: when no rule matches the action context the
\* result is auto_approved = false with the reason "no auto-approve rule
\* matches" and no rule name.
C26_NoMatchResultAsClaimed ==
    (gateCall.called /\ MatchingRules = {})
        => /\ gateResult.auto_approved = FALSE
           /\ gateResult.reason = "no auto-approve rule matches"
           /\ "rule" \notin DOMAIN gateResult

\* C26, amended: when no rule matches the action context the result is
\* auto_approved = false with the reason "No auto-approve rule matches -
\* requires human approval" and no rule name.
C26_NoMatchResult ==
    (gateCall.called /\ MatchingRules = {})
        => /\ gateResult.auto_approved = FALSE
           /\ gateResult.reason = "No auto-approve rule matches - requires human approval"
           /\ DOMAIN gateResult = {"auto_approved", "reason"}

\* C26 witness: a call has returned over a list that holds rules, none of
\* which matches the context.
C26_Witness ==
    /\ gateCall.called
    /\ rules # <<>>
    /\ MatchingRules = {}

C28_DecisionsForDomain ==
    [][(ret'.op = "decisions_for_domain" /\ ret' # ret)
          => /\ ret'.raised = "none"
             /\ ret'.value = SelectSeq(decisions, LAMBDA d : d.domain = ret'.domain)
             /\ decisions' = decisions]_vars

\* C29: a successful deliberate call appends exactly one Decision, keyed by
\* the proposal's id, at the end of the ledger and returns that same
\* Decision; it leaves the proposal list and all earlier ledger entries
\* unchanged.
C29_DeliberateAppendsOne ==
    [][(ret' # ret /\ ret'.op = "deliberated" /\ ret'.raised = "none")
          => /\ Len(decisions') = Len(decisions) + 1
             /\ SubSeq(decisions', 1, Len(decisions)) = decisions
             /\ ret'.index = Len(decisions')
             /\ LET d == decisions'[Len(decisions')]
                IN  /\ d.pidx \in DOMAIN proposals
                    /\ d.proposal_id = proposals[d.pidx].id
             /\ proposals' = proposals]_vars

\* C29 witness: a deliberate call has returned the second entry of a ledger
\* whose first entry is the Decision of another proposal.
C29_Witness ==
    /\ ret.op = "deliberated"
    /\ ret.index = 2
    /\ Len(decisions) = 2
    /\ decisions[1].pidx # decisions[2].pidx

\* C30: after any sequence of submit calls and deliberate calls on submitted
\* proposals, the number of proposals pending() returns plus the number of
\* Decisions in the ledger equals the number of proposals submitted.
C30_PendingPlusDecided ==
    Len(GetPendingProposals) + Len(decisions) = Len(proposals)

\* The context the call's own arguments describe.
ArgumentContext ==
    [k \in ContextKeys |->
        IF k = "action_type" THEN gateCall.action_type ELSE gateCall.risk_level]

\* C31: the result of evaluate(action_type, risk_level, details) is that of
\* matching the rules against the action_type and risk_level arguments: with
\* the default rules the action is auto-approved whenever the arguments
\* satisfy a rule and not auto-approved whenever they satisfy none, whatever
\* keys details holds.
C31_ArgumentsDecide ==
    (gateCall.called /\ rules = RULES)
        => (gateResult.auto_approved
               <=> \E i \in DOMAIN RULES : RuleMatches(RULES[i], ArgumentContext))

Elements(seq) == {seq[k] : k \in DOMAIN seq}

\* The batches router.send_all was given that hold message m.
BatchesWith(m) == {b \in DOMAIN notifier.sent : m \in Elements(notifier.sent[b])}

\* C32: NotificationManager loses and duplicates no notification: every
\* message passed to notify is still pending or is in a batch passed to
\* router.send_all, and in no more than one batch, also when a notify call
\* runs while a flush is suspended in send_all; and after notify returns,
\* fewer than batch_size notifications are pending.
C32_NoLossNoDuplicate ==
    /\ \A m \in 1..notifier.count :
           /\ Cardinality(BatchesWith(m)) <= 1
           /\ m \in Elements(notifier.pending) \/ BatchesWith(m) # {}
    /\ notifier.event = "notify_returned" => Len(notifier.pending) < batch_size

\* The lists of a list of lists, joined in order.
RECURSIVE Flatten(_)
Flatten(lists) ==
    IF lists = <<>> THEN <<>>
    ELSE Flatten(SubSeq(lists, 1, Len(lists) - 1)) \o lists[Len(lists)]

\* C33: for WebChatAdapter every message passed to enqueue is returned by
\* exactly one receive call or is still queued, messages are returned in
\* enqueue order (the returned lists, joined, followed by the queue are the
\* messages in the order they were enqueued), and the queue is empty right
\* after each receive.
C33_ReceiveDrainsInOrder ==
    /\ Flatten(webchat.received) \o webchat.message_queue
           = [k \in 1..webchat.count |-> k]
    /\ webchat.event = "received" => webchat.message_queue = <<>>

\* C33 witness: two receive calls have each returned messages, the first of
\* them more than one.
C33_Witness ==
    \E i, j \in DOMAIN webchat.received :
        /\ i < j
        /\ Len(webchat.received[i]) >= 2
        /\ Len(webchat.received[j]) >= 1

\* C34: complete(x), when a task with id x exists, marks exactly that task
\* completed and changes no other task; when no task matches, it changes
\* nothing and returns "Task not found"; and a task's status never goes from
\* completed back to pending.
C34_CompleteMarksThatTask ==
    [][/\ (tasks'.ret.op = "complete" /\ tasks' # tasks)
             => LET x == tasks'.ret.arg
                    old == tasks.tasks
                    new == tasks'.tasks
                    withId == {k \in DOMAIN old : old[k].id = x}
                    matching == {k \in DOMAIN old : old[k].id = x \/ InTitle(x, old[k].title)}
                IN  /\ DOMAIN new = DOMAIN old
                    /\ withId # {}
                          => /\ \A k \in withId : new[k].status = "completed"
                             /\ \A k \in DOMAIN old \ withId : new[k] = old[k]
                    /\ matching = {}
                          => /\ new = old
                             /\ tasks'.ret.value = "Task not found"
       /\ \A k \in DOMAIN tasks.tasks :
              tasks.tasks[k].status = "completed"
                  => /\ k \in DOMAIN tasks'.tasks
                     /\ tasks'.tasks[k].status = "completed"]_vars

\* The command of the run succeeded: it exited with code 0.
CommandSucceeded(outcome) == outcome \in {"exit_0", "exit_0_undecodable"}

\* C35: after run_job(job), job.consecutive_failures is 0 if the command
\* succeeded and exactly one more than before if it failed (non-zero exit,
\* exception or timeout); in both cases last_run is set, last_status is ok
\* or failed accordingly, and exactly one result record is appended.
C35_RunJobBookkeeping ==
    [][(cron'.ret.op = "run_job" /\ cron'.results # cron.results) =>
        \A j \in cron'.ret.value :
            /\ IF CommandSucceeded(cron'.ret.outcome)
               THEN /\ cron'.jobs[j].consecutive_failures = 0
                    /\ cron'.jobs[j].last_status = <<"ok">>
               ELSE /\ cron'.jobs[j].consecutive_failures
                         = cron.jobs[j].consecutive_failures + 1
                    /\ cron'.jobs[j].last_status = <<"failed">>
            /\ cron'.jobs[j].last_run # <<>>
            /\ Len(cron'.results) = Len(cron.results) + 1]_vars

\* C36: get_due_jobs never returns a disabled job, and an hourly job that
\* has been run is not returned again until at least 3600 seconds have
\* passed since the end of that run, whether it succeeded or failed.
C36_DueJobs ==
    cron.ret.op = "get_due_jobs" =>
        \A j \in cron.ret.value :
            /\ cron.jobs[j].enabled
            /\ cron.jobs[j].schedule = "hourly" =>
                   \A k \in DOMAIN cron.results :
                       cron.results[k].jidx = j =>
                           cron.ret.at - cron.results[k].end >= 3600

\* get_due_jobs has returned while a job is disabled and an hourly job whose
\* run failed is held back although the minute of the hour has come.
C36_Witness ==
    /\ cron.ret.op = "get_due_jobs"
    /\ \E j \in DOMAIN cron.jobs : ~cron.jobs[j].enabled
    /\ \E j \in DOMAIN cron.jobs, k \in DOMAIN cron.results :
         /\ cron.jobs[j].enabled /\ cron.jobs[j].schedule = "hourly"
         /\ cron.results[k].jidx = j /\ ~cron.results[k].success
         /\ Minute(cron.ret.at) >= cron.jobs[j].minute
         /\ j \notin cron.ret.value

\* C37: after any sequence of switch_domain calls from the initial state,
\* active_domain is personal or work; a call with any other value leaves
\* active_domain unchanged and returns an "Unknown domain" message.
C37_SwitchDomain ==
    /\ [](architect.active_domain \in {"personal", "work"})
    /\ [][(/\ architect'.ret.op = "switch_domain"
           /\ architect'.calls # architect.calls
           /\ architect'.ret.arg \notin {"personal", "work"}) =>
              /\ architect'.active_domain = architect.active_domain
              /\ architect'.ret.value = "Unknown domain: " \o architect'.ret.arg]_vars

\* The domain was switched to work and a later call with an unknown value
\* has returned.
C37_Witness ==
    /\ architect.ret.op = "switch_domain"
    /\ architect.ret.arg \notin {"personal", "work"}
    /\ architect.active_domain = "work"
    /\ Len(architect.calls) >= 2

\* C38: run_all reports overall = degraded if and only if at least one check
\* raised an exception; a check that returns a false value is recorded as
\* warning; healthy_count is the number of checks with status ok and never
\* exceeds total_checks; every registered check yields exactly one entry, in
\* registration order.
C38_RunAll ==
    health.ret.op = "run_all" =>
        LET r == health.ret
        IN  /\ r.overall \in {"healthy", "degraded"}
            /\ r.overall = "degraded" <=>
                   \E k \in DOMAIN r.outcomes : r.outcomes[k] = "raises"
            /\ \A k \in DOMAIN r.outcomes :
                   r.outcomes[k] = "falsy" => r.checks[k].status = "warning"
            /\ r.healthy_count
                   = Cardinality({k \in DOMAIN r.checks : r.checks[k].status = "ok"})
            /\ r.healthy_count <= r.total_checks
            /\ Len(r.checks) = Len(health.checks)
            /\ \A k \in DOMAIN r.checks : r.checks[k].name = health.checks[k].name

\* run_all has returned healthy for checks of which one returned a false
\* value and one a true value.
C38_Witness ==
    /\ health.ret.op = "run_all"
    /\ health.ret.overall = "healthy"
    /\ \E k \in DOMAIN health.ret.outcomes : health.ret.outcomes[k] = "falsy"
    /\ \E k \in DOMAIN health.ret.outcomes : health.ret.outcomes[k] = "truthy"

=============================================================================
